---- MODULE Spec2Model ----
(***************************************************************************)
(* A model of the prompt composition engine of src/model.py: the element   *)
(* classes (PromptPart, PromptElement, Tag, Character, Lora), the composer *)
(* PromptFactory.generate and the registry TagRegistry with save and load. *)
(*                                                                         *)
(* Objects live in `heap`, a sequence of records; a reference is an index  *)
(* into it, so two objects with equal fields stay distinct (`is`).         *)
(* A float weight is an exact positive rational <<num, den>> in lowest     *)
(* terms; the weights used are ones whose float products are exact.        *)
(* A name or a literal is a string; a dict key, which the code may         *)
(* assemble from pieces, is the sequence of its pieces, so that            *)
(* `"<lora:" in key` can be decided.                                       *)
(***************************************************************************)
EXTENDS Integers, Sequences, FiniteSets, TLC

VARIABLES
    heap,       \* the objects of the process, by reference
    regTags,    \* TagRegistry._tags, items in insertion order
    regChars,   \* TagRegistry._chars
    regLoras,   \* TagRegistry._loras
    file,       \* the JSON document at filepath
    call,       \* the arguments of the call that produced `result`
    result      \* what that call returned or raised

vars == <<heap, regTags, regChars, regLoras, file, call, result>>

(***************************************************************************)
(* Bounds of the model.                                                    *)
(***************************************************************************)
\* longest list handed to PromptFactory.generate
MaxLen == 5
\* most usage-counter increments in one run
MaxCount == 2
\* most objects alive in one process
MaxObjs == 2

(***************************************************************************)
(* Enumerations.                                                           *)
(***************************************************************************)
Gender == {"MALE", "FEMALE", "UNISEX"}

Purpose == {"APPEARANCE", "POSE", "ACTION", "STYLE", "LIGHTING", "CLOTHING",
            "EXPRESSION", "COMPOSITION", "BACKGROUND", "OTHER"}

CombinePolicy == {"GEOMETRIC", "MULTIPLICATIVE", "WRAP"}

\* Enum.value: the lower-case string each member carries (what save writes)
EnumValue(member) ==
    CASE member = "MALE" -> "male"
      [] member = "FEMALE" -> "female"
      [] member = "UNISEX" -> "unisex"
      [] member = "APPEARANCE" -> "appearance"
      [] member = "POSE" -> "pose"
      [] member = "ACTION" -> "action"
      [] member = "STYLE" -> "style"
      [] member = "LIGHTING" -> "lighting"
      [] member = "CLOTHING" -> "clothing"
      [] member = "EXPRESSION" -> "expression"
      [] member = "COMPOSITION" -> "composition"
      [] member = "BACKGROUND" -> "background"
      [] member = "OTHER" -> "other"

\* str.upper() followed by Enum[...]: the member whose NAME is the upper-cased
\* string (what load does with the string it reads)
EnumByUpperName(str) ==
    CASE str = "male" -> "MALE"
      [] str = "female" -> "FEMALE"
      [] str = "unisex" -> "UNISEX"
      [] str = "appearance" -> "APPEARANCE"
      [] str = "pose" -> "POSE"
      [] str = "action" -> "ACTION"
      [] str = "style" -> "STYLE"
      [] str = "lighting" -> "LIGHTING"
      [] str = "clothing" -> "CLOTHING"
      [] str = "expression" -> "EXPRESSION"
      [] str = "composition" -> "COMPOSITION"
      [] str = "background" -> "BACKGROUND"
      [] str = "other" -> "OTHER"

(***************************************************************************)
(* Float weights as exact rationals.                                       *)
(***************************************************************************)
RECURSIVE Gcd(_, _)
Gcd(a, b) == IF b = 0 THEN a ELSE Gcd(b, a % b)

Norm(q) == LET g == Gcd(q[1], q[2]) IN <<q[1] \div g, q[2] \div g>>

One == <<1, 1>>

\* a * b on floats
Mul(a, b) == Norm(<<a[1] * b[1], a[2] * b[2]>>)

\* math.prod(ws): the product of a list, 1 for the empty list
RECURSIVE Prod(_)
Prod(ws) == IF ws = <<>> THEN One ELSE Mul(Head(ws), Prod(Tail(ws)))

\* str(float) inside an f-string, for the weights a Lora token can carry
FormatFloat(w) ==
    CASE w = <<1, 1>> -> "1.0"
      [] w = <<4, 5>> -> "0.8"
      [] w = <<1, 2>> -> "0.5"
      [] w = <<2, 5>> -> "0.4"
      [] w = <<1, 4>> -> "0.25"
      [] OTHER -> "?"

(***************************************************************************)
(* Objects.  One record shape for the three classes; a field a class does  *)
(* not have keeps its neutral value.                                       *)
(***************************************************************************)
\* PromptPart(value, weight) with a str value: `text` holds it (the literals
\* of the model do not spell the lora marker)
LiteralPart(text, weight) ==
    [isElement |-> FALSE, text |-> text, elem |-> 0, weight |-> weight]

\* PromptPart(value, weight) with a PromptElement value: `elem` refers to it
ElementPart(ref, weight) ==
    [isElement |-> TRUE, text |-> "", elem |-> ref, weight |-> weight]

\* Tag.__init__
NewTagObj(name, gender, purpose, parts, incompatible_names) ==
    [kind |-> "Tag", name |-> name, gender |-> gender, purpose |-> purpose,
     parts |-> parts, combine_policy |-> "GEOMETRIC",
     incompatible_names |-> incompatible_names, incompatible_tags |-> {},
     images_generated |-> 0, weight |-> One]

\* Character.__init__
NewCharacterObj(name, gender, parts) ==
    [kind |-> "Character", name |-> name, gender |-> gender, purpose |-> "OTHER",
     parts |-> parts, combine_policy |-> "GEOMETRIC",
     incompatible_names |-> {}, incompatible_tags |-> {},
     images_generated |-> 0, weight |-> One]

\* Lora.__init__
NewLoraObj(name, weight) ==
    [kind |-> "Lora", name |-> name, gender |-> "UNISEX", purpose |-> "OTHER",
     parts |-> <<>>, combine_policy |-> "MULTIPLICATIVE",
     incompatible_names |-> {}, incompatible_tags |-> {},
     images_generated |-> 0, weight |-> weight]

Refs(h) == 1..Len(h)

RefsOfKind(h, kind) == {r \in Refs(h) : h[r].kind = kind}

(***************************************************************************)
(* Rendering.  A Dict[str, List[float]] is the sequence of its items in    *)
(* insertion order, each [key, value].                                     *)
(***************************************************************************)
\* the position of key in dict d, 0 when absent (`key not in d`)
KeyIndex(d, key) ==
    IF \E i \in DOMAIN d : d[i].key = key
    THEN CHOOSE i \in DOMAIN d : d[i].key = key
    ELSE 0

\* if key not in d: d[key] = [];  d[key].extend(value)
Extend(d, key, value) ==
    LET i == KeyIndex(d, key)
    IN  IF i = 0
        THEN Append(d, [key |-> key, value |-> value])
        ELSE [d EXCEPT ![i].value = @ \o value]

\* the loop `for key, value in items: ... extend` over a rendered dict
RECURSIVE MergeItems(_, _)
MergeItems(d, items) ==
    IF items = <<>> THEN d
    ELSE MergeItems(Extend(d, Head(items).key, Head(items).value), Tail(items))

\* f"<lora:{self.name}:{self.weight * weight_override}>"
LoraKey(name, w) == <<"<lora:", name, ":", FormatFloat(w), ">">>

\* Lora.render
LoraRender(h, ref, weight_override) ==
    << [key |-> LoraKey(h[ref].name, Mul(h[ref].weight, weight_override)),
        value |-> <<>>] >>

RECURSIVE Render(_, _, _)
RECURSIVE PartRender(_, _)
RECURSIVE RenderParts(_, _, _)

\* PromptPart.render
PartRender(h, part) ==
    IF ~part.isElement
    THEN << [key |-> <<part.text>>, value |-> <<part.weight>>] >>
    ELSE Render(h, part.elem, part.weight)

\* the first loop of PromptElement.render: merge every part's render
RenderParts(h, parts, rendered_parts) ==
    IF parts = <<>> THEN rendered_parts
    ELSE RenderParts(h, Tail(parts),
                     MergeItems(rendered_parts, PartRender(h, Head(parts))))

\* PromptElement.render: the merged parts, weight_override appended to every key
ElementRender(h, ref, weight_override) ==
    LET rendered_parts == RenderParts(h, h[ref].parts, <<>>)
    IN  [i \in DOMAIN rendered_parts |->
           [key |-> rendered_parts[i].key,
            value |-> Append(rendered_parts[i].value, weight_override)]]

\* el.render(weight_override), dispatched on the class of el
Render(h, ref, weight_override) ==
    IF h[ref].kind = "Lora"
    THEN LoraRender(h, ref, weight_override)
    ELSE ElementRender(h, ref, weight_override)

(***************************************************************************)
(* PromptFactory.generate.  An element of the list is a reference, NoneEl  *)
(* (Python None) or OtherEl (an object that is no Character, Tag or Lora). *)
(***************************************************************************)
NoneEl == 0

OtherEl == -1

\* a raised exception: its class and the raise statement it comes from
Raise(exc, site) ==
    [status |-> "raise", exc |-> exc, site |-> site, prompt |-> <<>>,
     filename |-> <<>>, rends |-> <<>>]

\* the returned pair (prompt_str, filename); rends keeps the local `rend` of
\* every group as the loop body left it
Return(prompt_str, filename, rends) ==
    [status |-> "ok", exc |-> "", site |-> "", prompt |-> prompt_str,
     filename |-> filename, rends |-> rends]

NoResult ==
    [status |-> "none", exc |-> "", site |-> "", prompt |-> <<>>,
     filename |-> <<>>, rends |-> <<>>]

\* the exception class of each raise statement of generate and of load
ExcOf(site) ==
    CASE site = "tag_before_character" -> "ValueError"
      [] site = "gender" -> "ValueError"
      [] site = "unsupported_type" -> "TypeError"
      [] site = "no_character" -> "ValueError"
      [] site = "incompatible" -> "ValueError"
      [] site = "fold" -> "ZeroDivisionError"
      [] site = "unknown_element" -> "ValueError"

\* the gender test without the exemption of UNISEX tags: what the loop would
\* do if line 203 compared the two genders only
GenderMismatchNoUnisex(h, el, current_char, enforce_gender) ==
    /\ enforce_gender
    /\ h[el].kind = "Tag"
    /\ h[el].gender # h[current_char].gender

\* the gender test of the grouping loop
GenderMismatch(h, el, current_char, enforce_gender) ==
    /\ enforce_gender
    /\ h[el].kind = "Tag"
    /\ h[el].gender # "UNISEX"
    /\ h[el].gender # h[current_char].gender

\* a generate that undoes its increments: the counter of ref left as it was
IncrementUsageUndone(h, ref) == h

\* Character.increment_usage
IncrementUsage(h, ref) ==
    [h EXCEPT ![ref].images_generated = @ + 1]

\* the grouping loop over elements; st = [err, groups, current_char, h]
RECURSIVE GroupPass(_, _, _)
GroupPass(elements, enforce_gender, st) ==
    IF elements = <<>> \/ st.err # ""
    THEN st
    ELSE LET el == Head(elements)
             rest == Tail(elements)
         IN  IF el = NoneEl
             THEN GroupPass(rest, enforce_gender, st)
             ELSE IF el = OtherEl
             THEN [st EXCEPT !.err = "unsupported_type"]
             ELSE IF st.h[el].kind = "Character"
             THEN GroupPass(rest, enforce_gender,
                    [st EXCEPT !.current_char = el,
                               !.h = IncrementUsage(st.h, el),
                               !.groups = Append(@, [char |-> el, parts |-> <<>>])])
             ELSE IF st.current_char = NoneEl
             THEN [st EXCEPT !.err = "tag_before_character"]
             ELSE IF GenderMismatch(st.h, el, st.current_char, enforce_gender)
             THEN [st EXCEPT !.err = "gender"]
             ELSE GroupPass(rest, enforce_gender,
                    [st EXCEPT !.groups[Len(st.groups)].parts = Append(@, el)])

\* Tag.is_compatible_with
IsCompatibleWith(h, self, other) ==
    h[other].name \notin h[self].incompatible_names

\* tags = [p for p in parts if isinstance(p, Tag)]
TagsOf(h, parts) == SelectSeq(parts, LAMBDA p : h[p].kind = "Tag")

\* the double loop over the tags of a group finds a pair to reject
HasIncompatiblePair(h, parts) ==
    LET tags == TagsOf(h, parts)
    IN  \E i, j \in DOMAIN tags :
            /\ tags[i] # tags[j]
            /\ ~IsCompatibleWith(h, tags[i], tags[j])

\* rend = char.render(), then every part's render merged in
RECURSIVE MergeGroup(_, _, _)
MergeGroup(h, parts, rend) ==
    IF parts = <<>> THEN rend
    ELSE MergeGroup(h, Tail(parts),
                    MergeItems(rend, Render(h, Head(parts), One)))

GroupRend(h, group) == MergeGroup(h, group.parts, Render(h, group.char, One))

\* x ** (1 / n): the n-th root of x, kept exact as the pair (radicand, index)
Root(x, n) == [rad |-> x, idx |-> n]

\* math.prod(ws) ** (1 / len(ws))
GeoMean(ws) == Root(Prod(ws), Len(ws))

\* value[0] == 1, for the weights of the model (positive)
IsOne(x) == x.rad = One

\* the combine policy applied to the rend of a group
Fold(policy, rend) ==
    IF policy = "GEOMETRIC"
    THEN [i \in DOMAIN rend |->
            [key |-> rend[i].key, value |-> <<GeoMean(rend[i].value)>>]]
    ELSE [i \in DOMAIN rend |->
            [key |-> rend[i].key,
             value |-> [k \in DOMAIN rend[i].value |-> Root(rend[i].value[k], 1)]]]

\* 1 / len(rend[key]) divides by zero for a key with no contribution
FoldRaises(policy, rend) ==
    /\ policy = "GEOMETRIC"
    /\ \E i \in DOMAIN rend : Len(rend[i].value) = 0

\* "<lora:" in key
HasLoraMarker(key) == \E i \in DOMAIN key : key[i] = "<lora:"

NoWeight == Root(<<0, 1>>, 0)

\* one token of group_str, each followed by ", ":
\* f"{key}, " (bare) or f"({key}:{value[0]}), " (paren)
Token(form, key, weight) == [form |-> form, key |-> key, weight |-> weight]

EmitToken(item) ==
    IF HasLoraMarker(item.key)
    THEN Token("bare", item.key, NoWeight)
    ELSE IF IsOne(item.value[1])
    THEN Token("bare", item.key, NoWeight)
    ELSE Token("paren", item.key, item.value[1])

\* group_str of one folded rend
GroupStr(folded) == [i \in DOMAIN folded |-> EmitToken(folded[i])]

\* f" {break_token}, ".join(group_strs)
RECURSIVE Join(_, _)
Join(sep, strs) ==
    IF strs = <<>> THEN <<>>
    ELSE IF Len(strs) = 1 THEN strs[1]
    ELSE strs[1] \o <<sep>> \o Join(sep, Tail(strs))

BreakSep(break_token) == Token("break", <<" ", break_token, ", ">>, NoWeight)

\* str(n) for an int n >= 0, digit by digit
RECURSIVE IntStr(_)
IntStr(n) ==
    LET digit == <<"0", "1", "2", "3", "4", "5", "6", "7", "8", "9">>
    IN  IF n < 10 THEN <<digit[n + 1]>>
        ELSE IntStr(n \div 10) \o <<digit[(n % 10) + 1]>>

\* f"{char.name}_{char.images_generated}"
NamePart(h, char) == <<h[char].name, "_">> \o IntStr(h[char].images_generated)

\* the loop over groups; acc = [err, group_strs, name_parts, rends]
RECURSIVE GroupLoop(_, _, _)
GroupLoop(h, groups, acc) ==
    IF groups = <<>> \/ acc.err # ""
    THEN acc
    ELSE LET g == Head(groups)
             rend == GroupRend(h, g)
             policy == h[g.char].combine_policy
             named == [acc EXCEPT !.name_parts = Append(@, NamePart(h, g.char))]
         IN  IF HasIncompatiblePair(h, g.parts)
             THEN [named EXCEPT !.err = "incompatible"]
             ELSE IF FoldRaises(policy, rend)
             THEN [named EXCEPT !.err = "fold"]
             ELSE GroupLoop(h, Tail(groups),
                    [named EXCEPT !.group_strs =
                                     Append(@, GroupStr(Fold(policy, rend))),
                                  !.rends = Append(@, Fold(policy, rend))])

\* the grouping loop from its initial state
Grouping(h, elements, enforce_gender) ==
    GroupPass(elements, enforce_gender,
              [err |-> "", groups |-> <<>>, current_char |-> NoneEl, h |-> h])

\* what the call returns or raises once the grouping loop has ended in `pass`
Outcome(pass, break_token) ==
    LET loop == GroupLoop(pass.h, pass.groups,
                  [err |-> "", group_strs |-> <<>>, name_parts |-> <<>>,
                   rends |-> <<>>])
    IN  IF pass.err # ""
        THEN Raise(ExcOf(pass.err), pass.err)
        ELSE IF pass.groups = <<>>
        THEN Raise(ExcOf("no_character"), "no_character")
        ELSE IF loop.err # ""
        THEN Raise(ExcOf(loop.err), loop.err)
        ELSE Return(Join(BreakSep(break_token), loop.group_strs),
                    Join("_", loop.name_parts), loop.rends)

(***************************************************************************)
(* The composer on a library of elements.                                  *)
(***************************************************************************)
\* the library, in construction order
Library ==
    LET smile == 1
        styleX == 3
    IN  << NewTagObj("smile", "UNISEX", "EXPRESSION",
                     <<LiteralPart("smiling", One)>>, {}),
           NewTagObj("armor", "MALE", "CLOTHING",
                     <<LiteralPart("plate armor", <<4, 5>>)>>, {"smile"}),
           NewLoraObj("styleX", <<4, 5>>),
           NewCharacterObj("Alice", "FEMALE", <<>>),
           NewCharacterObj("Bob", "MALE",
                     <<LiteralPart("man", One), ElementPart(smile, <<1, 2>>),
                       ElementPart(styleX, <<1, 2>>)>>) >>

NoFile == [present |-> FALSE, characters |-> <<>>, tags |-> <<>>, loras |-> <<>>]

NoCall == [op |-> "none", elements |-> <<>>, enforce_gender |-> FALSE]

\* the sum of the usage counters of the heap
RECURSIVE TotalUsage(_)
TotalUsage(h) ==
    IF h = <<>> THEN 0 ELSE Head(h).images_generated + TotalUsage(Tail(h))

\* every list of at most n members of S
Lists(S, n) == UNION {[1..k -> S] : k \in 0..n}

InitGen ==
    /\ heap = Library
    /\ regTags = <<>>
    /\ regChars = <<>>
    /\ regLoras = <<>>
    /\ file = NoFile
    /\ call = NoCall
    /\ result = NoResult

\* a call of PromptFactory.generate(elements, "BREAK", enforce_gender)
Generate(elements, enforce_gender) ==
    /\ LET pass == Grouping(heap, elements, enforce_gender)
       IN  /\ TotalUsage(pass.h) <= MaxCount
           /\ heap' = pass.h
           /\ result' = Outcome(pass, "BREAK")
    /\ call' = [op |-> "generate", elements |-> elements,
                enforce_gender |-> enforce_gender]
    /\ UNCHANGED <<regTags, regChars, regLoras, file>>

\* the caller has taken the pair or caught the exception
Returned ==
    /\ result.status # "none"
    /\ result' = NoResult
    /\ call' = NoCall
    /\ UNCHANGED <<heap, regTags, regChars, regLoras, file>>

\* the caller makes its next call once the last one has returned
CallGenerate ==
    /\ result.status = "none"
    /\ \E elements \in Lists(Refs(heap) \cup {NoneEl, OtherEl}, MaxLen),
          enforce_gender \in BOOLEAN : Generate(elements, enforce_gender)

NextGen ==
    \/ CallGenerate
    \/ Returned

SpecGen == InitGen /\ [][NextGen]_vars

(***************************************************************************)
(* TagRegistry.  A registry dict is the sequence of its items in insertion *)
(* order, each [name, ref].                                                *)
(***************************************************************************)
\* d.get(name): the reference stored under name, 0 (None) when absent
DictGet(d, name) ==
    IF \E i \in DOMAIN d : d[i].name = name
    THEN d[CHOOSE i \in DOMAIN d : d[i].name = name].ref
    ELSE 0

\* d[name] = ref: a new key goes last, a known key keeps its place
DictSet(d, name, ref) ==
    IF \E i \in DOMAIN d : d[i].name = name
    THEN [i \in DOMAIN d |->
            IF d[i].name = name THEN [name |-> name, ref |-> ref] ELSE d[i]]
    ELSE Append(d, [name |-> name, ref |-> ref])

\* TagRegistry.find: tags first, then characters, then loras
Find(tags, chars, loras, name) ==
    IF DictGet(tags, name) # 0 THEN DictGet(tags, name)
    ELSE IF DictGet(chars, name) # 0 THEN DictGet(chars, name)
    ELSE DictGet(loras, name)

\* Tag.add_incompatibility
AddIncompatibilityTo(h, self, other) ==
    LET h1 == [h EXCEPT ![self].incompatible_tags = @ \cup {other}]
        h2 == [h1 EXCEPT ![other].incompatible_tags = @ \cup {self}]
        h3 == [h2 EXCEPT ![self].incompatible_names = @ \cup {h[other].name}]
    IN  [h3 EXCEPT ![other].incompatible_names = @ \cup {h[self].name}]

\* the 'parts' list save writes for an element
PartsData(h, parts) ==
    [i \in DOMAIN parts |->
       [type |-> IF ~parts[i].isElement THEN "string" ELSE "element",
        value |-> IF ~parts[i].isElement THEN parts[i].text
                  ELSE h[parts[i].elem].name,
        weight |-> parts[i].weight]]

\* the record save writes for a character
CharData(h, ref) ==
    [name |-> h[ref].name, gender |-> EnumValue(h[ref].gender),
     parts |-> PartsData(h, h[ref].parts),
     images_generated |-> h[ref].images_generated]

\* the record save writes for a tag; order is list(t.incompatible_names)
TagData(h, ref, order) ==
    [name |-> h[ref].name, gender |-> EnumValue(h[ref].gender),
     purpose |-> EnumValue(h[ref].purpose),
     parts |-> PartsData(h, h[ref].parts),
     incompatibles |-> order]

\* the record save writes for a lora
LoraData(h, ref) == [name |-> h[ref].name, weight |-> h[ref].weight]

\* the lists a set may be turned into by list(set)
ListsOfSet(S) ==
    {q \in [1..Cardinality(S) -> S] : \A x \in S : \E i \in DOMAIN q : q[i] = x}

\* the document TagRegistry.save writes; orders[i] lists the names of tag i
SaveData(h, tags, chars, loras, orders) ==
    [present |-> TRUE,
     characters |-> [i \in DOMAIN chars |-> CharData(h, chars[i].ref)],
     tags |-> [i \in DOMAIN tags |-> TagData(h, tags[i].ref, orders[i])],
     loras |-> [i \in DOMAIN loras |-> LoraData(h, loras[i].ref)]]

\* the state load works on: the heap, the three dicts, and the error raised
LoadState(h, tags, chars, loras) ==
    [h |-> h, tags |-> tags, chars |-> chars, loras |-> loras, err |-> ""]

\* first pass over 'characters': a Character shell per record, registered
RECURSIVE ShellChars(_, _)
ShellChars(st, data) ==
    IF data = <<>> THEN st
    ELSE LET d == Head(data)
             obj == NewCharacterObj(d.name, EnumByUpperName(d.gender), <<>>)
         IN  ShellChars([st EXCEPT !.h = Append(@, obj),
                                   !.chars = DictSet(@, d.name, Len(st.h) + 1)],
                        Tail(data))

\* first pass over 'tags'
RECURSIVE ShellTags(_, _)
ShellTags(st, data) ==
    IF data = <<>> THEN st
    ELSE LET d == Head(data)
             obj == NewTagObj(d.name, EnumByUpperName(d.gender),
                              EnumByUpperName(d.purpose), <<>>, {})
         IN  ShellTags([st EXCEPT !.h = Append(@, obj),
                                  !.tags = DictSet(@, d.name, Len(st.h) + 1)],
                       Tail(data))

\* first pass over 'loras'
RECURSIVE ShellLoras(_, _)
ShellLoras(st, data) ==
    IF data = <<>> THEN st
    ELSE LET d == Head(data)
             obj == NewLoraObj(d.name, d.weight)
         IN  ShellLoras([st EXCEPT !.h = Append(@, obj),
                                   !.loras = DictSet(@, d.name, Len(st.h) + 1)],
                        Tail(data))

\* the loop over part_data: append each part to the element `ref`
RECURSIVE LoadParts(_, _, _)
LoadParts(st, ref, parts_data) ==
    IF parts_data = <<>> \/ st.err # "" THEN st
    ELSE LET pd == Head(parts_data)
             insertion == Find(st.tags, st.chars, st.loras, pd.value)
         IN  IF pd.type = "string"
             THEN LoadParts([st EXCEPT !.h[ref].parts =
                                 Append(@, LiteralPart(pd.value, pd.weight))],
                            ref, Tail(parts_data))
             ELSE IF insertion = 0
             THEN [st EXCEPT !.err = "unknown_element"]
             ELSE LoadParts([st EXCEPT !.h[ref].parts =
                                 Append(@, ElementPart(insertion, pd.weight))],
                            ref, Tail(parts_data))

\* second pass over 'characters'
RECURSIVE FillChars(_, _)
FillChars(st, data) ==
    IF data = <<>> \/ st.err # "" THEN st
    ELSE LET d == Head(data)
             found == Find(st.tags, st.chars, st.loras, d.name)
             made == IF found # 0 THEN st
                     ELSE [st EXCEPT
                             !.h = Append(@, NewCharacterObj(d.name,
                                        EnumByUpperName(d.gender), <<>>)),
                             !.chars = DictSet(@, d.name, Len(st.h) + 1)]
             char == IF found # 0 THEN found ELSE Len(st.h) + 1
             filled == LoadParts(made, char, d.parts)
         IN  IF filled.err # "" THEN filled
             ELSE IF filled.h[char].kind = "Character"
             THEN FillChars([filled EXCEPT !.h[char].images_generated =
                                              d.images_generated],
                            Tail(data))
             ELSE FillChars(filled, Tail(data))

\* the loop over tag_data['incompatibles']
RECURSIVE LoadIncompatibles(_, _, _)
LoadIncompatibles(st, tag, names) ==
    IF names = <<>> \/ st.err # "" THEN st
    ELSE LET incompatible_tag == Find(st.tags, st.chars, st.loras, Head(names))
         IN  IF incompatible_tag = 0
             THEN [st EXCEPT !.err = "unknown_element"]
             ELSE IF st.h[tag].kind = "Tag" /\ st.h[incompatible_tag].kind = "Tag"
             THEN LoadIncompatibles(
                    [st EXCEPT !.h = AddIncompatibilityTo(@, tag, incompatible_tag)],
                    tag, Tail(names))
             ELSE LoadIncompatibles(st, tag, Tail(names))

\* second pass over 'tags'
RECURSIVE FillTags(_, _)
FillTags(st, data) ==
    IF data = <<>> \/ st.err # "" THEN st
    ELSE LET d == Head(data)
             found == Find(st.tags, st.chars, st.loras, d.name)
             made == IF found # 0 THEN st
                     ELSE [st EXCEPT
                             !.h = Append(@, NewTagObj(d.name,
                                        EnumByUpperName(d.gender),
                                        EnumByUpperName(d.purpose), <<>>, {})),
                             !.tags = DictSet(@, d.name, Len(st.h) + 1)]
             tag == IF found # 0 THEN found ELSE Len(st.h) + 1
             filled == LoadParts(made, tag, d.parts)
         IN  FillTags(LoadIncompatibles(filled, tag, d.incompatibles), Tail(data))

\* TagRegistry.load on document doc: the state it leaves, err set when it raised
LoadCall(h, tags, chars, loras, doc) ==
    LET shells == ShellLoras(ShellTags(ShellChars(LoadState(h, tags, chars, loras),
                                                  doc.characters),
                                       doc.tags),
                             doc.loras)
    IN  FillTags(FillChars(shells, doc.characters), doc.tags)

(***************************************************************************)
(* The registry in a process that builds elements, registers them, saves   *)
(* and loads.                                                              *)
(***************************************************************************)
\* what the constructors are called with
Names == {"a", "b"}

CharNames == {"a"}

LoraNames == {"b"}

TagGenders == {"MALE"}

CharGenders == {"FEMALE"}

TagPurposes == {"POSE"}

PartWeights == {<<1, 2>>}

LoraWeights == {<<4, 5>>}

\* the incompatible_names a Tag may be constructed with
IncompatibleInputs == {{}, {"b"}}

\* the parts lists handed to the Character constructor: none, or one literal
CharPartsInputs == {<<>>} \cup {<<LiteralPart("x", w)>> : w \in PartWeights}

\* the parts lists handed to the Tag constructor: none, or one reference to
\* an element that exists
TagPartsInputs(h) ==
    {<<>>} \cup {<<ElementPart(r, w)>> : r \in Refs(h), w \in PartWeights}

InitReg ==
    /\ heap = <<>>
    /\ regTags = <<>>
    /\ regChars = <<>>
    /\ regLoras = <<>>
    /\ file = NoFile
    /\ call = NoCall
    /\ result = NoResult

Idle == result.status = "none"

\* Tag(name, gender, purpose, parts, incompatible_names)
NewTag(name, gender, purpose, parts, incompatible_names) ==
    /\ Len(heap) < MaxObjs
    /\ heap' = Append(heap, NewTagObj(name, gender, purpose, parts,
                                      incompatible_names))
    /\ UNCHANGED <<regTags, regChars, regLoras, file, call, result>>

\* Character(name, gender, parts)
NewCharacter(name, gender, parts) ==
    /\ Len(heap) < MaxObjs
    /\ heap' = Append(heap, NewCharacterObj(name, gender, parts))
    /\ UNCHANGED <<regTags, regChars, regLoras, file, call, result>>

\* Lora(name, weight)
NewLora(name, weight) ==
    /\ Len(heap) < MaxObjs
    /\ heap' = Append(heap, NewLoraObj(name, weight))
    /\ UNCHANGED <<regTags, regChars, regLoras, file, call, result>>

\* TagRegistry.register_tag
RegisterTag(ref) ==
    /\ heap[ref].kind = "Tag"
    /\ regTags' = DictSet(regTags, heap[ref].name, ref)
    /\ UNCHANGED <<heap, regChars, regLoras, file, call, result>>

\* TagRegistry.register_char
RegisterChar(ref) ==
    /\ heap[ref].kind = "Character"
    /\ regChars' = DictSet(regChars, heap[ref].name, ref)
    /\ UNCHANGED <<heap, regTags, regLoras, file, call, result>>

\* TagRegistry.register_lora
RegisterLora(ref) ==
    /\ heap[ref].kind = "Lora"
    /\ regLoras' = DictSet(regLoras, heap[ref].name, ref)
    /\ UNCHANGED <<heap, regTags, regChars, file, call, result>>

\* self.add_incompatibility(other)
AddIncompatibility(self, other) ==
    /\ heap[self].kind = "Tag"
    /\ heap[other].kind = "Tag"
    /\ heap' = AddIncompatibilityTo(heap, self, other)
    /\ UNCHANGED <<regTags, regChars, regLoras, file, call, result>>

\* char.increment_usage()
Use(ref) ==
    /\ heap[ref].kind = "Character"
    /\ TotalUsage(heap) < MaxCount
    /\ heap' = IncrementUsage(heap, ref)
    /\ UNCHANGED <<regTags, regChars, regLoras, file, call, result>>

\* TagRegistry.save(filepath)
Save ==
    /\ \E orders \in [DOMAIN regTags ->
                        UNION {ListsOfSet(N) : N \in SUBSET Names}] :
          /\ \A i \in DOMAIN regTags :
                orders[i] \in ListsOfSet(heap[regTags[i].ref].incompatible_names)
          /\ file' = SaveData(heap, regTags, regChars, regLoras, orders)
    /\ UNCHANGED <<heap, regTags, regChars, regLoras, call, result>>

\* TagRegistry.load(filepath)
Load ==
    /\ file.present
    /\ Len(heap) + Len(file.characters) + Len(file.tags) + Len(file.loras)
          <= MaxObjs
    /\ LET out == LoadCall(heap, regTags, regChars, regLoras, file)
       IN  /\ heap' = out.h
           /\ regTags' = out.tags
           /\ regChars' = out.chars
           /\ regLoras' = out.loras
           /\ result' = IF out.err = "" THEN Return(<<>>, <<>>, <<>>)
                        ELSE Raise(ExcOf(out.err), out.err)
    /\ call' = [op |-> "load", elements |-> <<>>, enforce_gender |-> FALSE]
    /\ UNCHANGED file

\* the process ends and a new one starts: the class-level dicts are empty
\* again, the document stays on disk
Restart ==
    /\ heap' = <<>>
    /\ regTags' = <<>>
    /\ regChars' = <<>>
    /\ regLoras' = <<>>
    /\ UNCHANGED <<file, call, result>>

NextReg ==
    \/ Idle /\ \E name \in Names, gender \in TagGenders, purpose \in TagPurposes,
                  parts \in TagPartsInputs(heap),
                  names \in IncompatibleInputs :
                  NewTag(name, gender, purpose, parts, names)
    \/ Idle /\ \E name \in CharNames, gender \in CharGenders,
                  parts \in CharPartsInputs : NewCharacter(name, gender, parts)
    \/ Idle /\ \E name \in LoraNames, weight \in LoraWeights :
                  NewLora(name, weight)
    \/ Idle /\ \E ref \in Refs(heap) : RegisterTag(ref)
    \/ Idle /\ \E ref \in Refs(heap) : RegisterChar(ref)
    \/ Idle /\ \E ref \in Refs(heap) : RegisterLora(ref)
    \/ Idle /\ \E self, other \in Refs(heap) : AddIncompatibility(self, other)
    \/ Idle /\ \E ref \in Refs(heap) : Use(ref)
    \/ Idle /\ Save
    \/ Idle /\ Load
    \/ Idle /\ Restart
    \/ Returned

SpecReg == InitReg /\ [][NextReg]_vars

(***************************************************************************)
(* What the claims about generate speak of, read off the argument list of  *)
(* the call: groups, owners, mismatches and conflicts by list position.    *)
(***************************************************************************)
KindAt(h, els, i) ==
    IF els[i] = NoneEl THEN "None"
    ELSE IF els[i] = OtherEl THEN "Other"
    ELSE h[els[i]].kind

\* the position of the nearest Character before position i, 0 when there is none
OwnerPos(h, els, i) ==
    LET before == {j \in 1..(i - 1) : KindAt(h, els, j) = "Character"}
    IN  IF before = {} THEN 0
        ELSE CHOOSE j \in before : \A k \in before : k <= j

\* position i holds a tag or lora with no character before it, or an object
\* of unsupported type
StructuralFaultAt(h, els, i) ==
    \/ KindAt(h, els, i) = "Other"
    \/ KindAt(h, els, i) \in {"Tag", "Lora"} /\ OwnerPos(h, els, i) = 0

HasCharacter(h, els) == \E i \in DOMAIN els : KindAt(h, els, i) = "Character"

\* position i holds a Tag whose gender is not UNISEX and differs from the
\* gender of the character owning its group
MismatchAt(h, els, i) ==
    /\ KindAt(h, els, i) = "Tag"
    /\ OwnerPos(h, els, i) # 0
    /\ h[els[i]].gender # "UNISEX"
    /\ h[els[i]].gender # h[els[OwnerPos(h, els, i)]].gender

\* positions i and j hold two tags of one group, one of which lists the
\* other's name
ConflictAt(h, els, i, j) ==
    /\ KindAt(h, els, i) = "Tag"
    /\ KindAt(h, els, j) = "Tag"
    /\ els[i] # els[j]
    /\ OwnerPos(h, els, i) # 0
    /\ OwnerPos(h, els, i) = OwnerPos(h, els, j)
    /\ \/ h[els[j]].name \in h[els[i]].incompatible_names
       \/ h[els[i]].name \in h[els[j]].incompatible_names

HasConflict(h, els) == \E i, j \in DOMAIN els : ConflictAt(h, els, i, j)

\* the grouping loop has nothing to reject in the list
PassesGrouping(h, els, enforce_gender) ==
    /\ HasCharacter(h, els)
    /\ \A i \in DOMAIN els : ~StructuralFaultAt(h, els, i)
    /\ enforce_gender => \A i \in DOMAIN els : ~MismatchAt(h, els, i)

\* a Lora sits directly in a character's group
LoraInGroupAt(h, els, i) ==
    KindAt(h, els, i) = "Lora" /\ OwnerPos(h, els, i) # 0

IsGenerate == call.op = "generate"

(***************************************************************************)
(* C1.  A Lora placed directly in a character's group of an otherwise      *)
(* valid list: generate returns a prompt in which the token                *)
(* <lora:name:weight> appears verbatim, followed by the separator, with no *)
(* parenthesized weight.                                                   *)
(***************************************************************************)
C1_LoraTokenVerbatim ==
    (/\ IsGenerate
     /\ PassesGrouping(heap, call.elements, call.enforce_gender)
     /\ ~HasConflict(heap, call.elements))
    => \A i \in DOMAIN call.elements :
          LoraInGroupAt(heap, call.elements, i) =>
             /\ result.status = "ok"
             /\ \E k \in DOMAIN result.prompt :
                   /\ result.prompt[k].form = "bare"
                   /\ result.prompt[k].key =
                        <<"<lora:", heap[call.elements[i]].name, ":",
                          FormatFloat(heap[call.elements[i]].weight), ">">>

(***************************************************************************)
(* C2.  Round trip: load, run in a fresh process on the document save      *)
(* wrote, returns normally and leaves, under every name of the document, a *)
(* registered element with the same name, gender, purpose, ordered parts   *)
(* (type, value, weight), set of incompatible names, usage count and lora  *)
(* weight as the record save wrote for it.                                 *)
(***************************************************************************)
Range(q) == {q[i] : i \in DOMAIN q}

\* the element registered under the record's name carries the record's data
CharReproduced(h, chars, rec) ==
    /\ DictGet(chars, rec.name) # 0
    /\ CharData(h, DictGet(chars, rec.name)) = rec

TagReproduced(h, tags, rec) ==
    /\ DictGet(tags, rec.name) # 0
    /\ TagData(h, DictGet(tags, rec.name), rec.incompatibles) = rec
    /\ h[DictGet(tags, rec.name)].incompatible_names = Range(rec.incompatibles)

LoraReproduced(h, loras, rec) ==
    /\ DictGet(loras, rec.name) # 0
    /\ LoraData(h, DictGet(loras, rec.name)) = rec

C2_RoundTrip ==
    [][ (call.op = "none" /\ call'.op = "load" /\ heap = <<>>)
          => /\ result'.status = "ok"
             /\ \A i \in DOMAIN file.characters :
                   CharReproduced(heap', regChars', file.characters[i])
             /\ \A i \in DOMAIN file.tags :
                   TagReproduced(heap', regTags', file.tags[i])
             /\ \A i \in DOMAIN file.loras :
                   LoraReproduced(heap', regLoras', file.loras[i]) ]_vars

(***************************************************************************)
(* C3.  Incompatibility is symmetric in every reachable state: for all     *)
(* tags A and B, B.name is in A.incompatible_names exactly when A.name is  *)
(* in B.incompatible_names, so the two is_compatible_with calls agree.     *)
(***************************************************************************)
C3_IncompatibilitySymmetric ==
    \A a, b \in RefsOfKind(heap, "Tag") :
       /\ (heap[b].name \in heap[a].incompatible_names)
             <=> (heap[a].name \in heap[b].incompatible_names)
       /\ IsCompatibleWith(heap, a, b) <=> IsCompatibleWith(heap, b, a)

(***************************************************************************)
(* C4.  Every successful generate call raises the usage count of each      *)
(* character of its list by exactly 1, however many positions the          *)
(* character holds; no step lowers a usage count, and only a successful    *)
(* generate call changes one.                                              *)
(***************************************************************************)
C4_UsagePlusOnePerCall ==
    [][ /\ \A r \in Refs(heap) :
              heap'[r].images_generated >= heap[r].images_generated
        /\ (call'.op = "generate" /\ call.op = "none" /\ result'.status = "ok")
              => \A r \in RefsOfKind(heap, "Character") :
                    (\E i \in DOMAIN call'.elements : call'.elements[i] = r)
                       => heap'[r].images_generated
                            = heap[r].images_generated + 1
        /\ (\E r \in Refs(heap) :
               heap'[r].images_generated # heap[r].images_generated)
              => (call'.op = "generate" /\ result'.status = "ok") ]_vars

(***************************************************************************)
(* C5.  A call whose list passes the grouping loop raises the              *)
(* incompatibility error whenever some group holds two tags of which       *)
(* either lists the other's name, at whatever positions and whichever tag  *)
(* holds the record; a call with no such pair never raises that error.     *)
(***************************************************************************)
C5_IncompatiblePairRaises ==
    IsGenerate =>
       /\ (/\ PassesGrouping(heap, call.elements, call.enforce_gender)
           /\ HasConflict(heap, call.elements))
            => (result.status = "raise" /\ result.site = "incompatible")
       /\ ~HasConflict(heap, call.elements) => result.site # "incompatible"

(***************************************************************************)
(* C6.  Gender enforcement.  With enforce_gender true a call fails         *)
(* whenever some Tag has a gender other than UNISEX that differs from the  *)
(* gender of the character owning its group, and it fails with the gender  *)
(* error when nothing earlier in the list is rejected first; the gender    *)
(* error is raised only with enforce_gender true and only for such a Tag   *)
(* (never for a Lora, never with enforce_gender false).                    *)
(***************************************************************************)
C6_GenderEnforcement ==
    IsGenerate =>
       LET els == call.elements
           mismatches == {i \in DOMAIN els : MismatchAt(heap, els, i)}
       IN  /\ (call.enforce_gender /\ mismatches # {})
                 => result.status = "raise"
           /\ (call.enforce_gender /\
               \E i \in mismatches :
                  \A j \in 1..(i - 1) : ~StructuralFaultAt(heap, els, j))
                 => result.site = "gender"
           /\ result.site = "gender"
                 => (call.enforce_gender /\ mismatches # {})

\* a gender error raised for a tag whose owner is not at the head of the list,
\* after a UNISEX tag and a Lora passed the gender test at earlier positions
C6_Witness ==
    /\ IsGenerate
    /\ call.enforce_gender
    /\ result.site = "gender"
    /\ LET els == call.elements
           mismatches == {i \in DOMAIN els : MismatchAt(heap, els, i)}
           first == CHOOSE i \in mismatches : \A k \in mismatches : i <= k
       IN  /\ mismatches # {}
           /\ OwnerPos(heap, els, first) > 1
           /\ \E j \in 1..(first - 1) : KindAt(heap, els, j) = "Lora"
           /\ \E j \in 1..(first - 1) :
                 /\ KindAt(heap, els, j) = "Tag"
                 /\ heap[els[j]].gender = "UNISEX"

(***************************************************************************)
(* C7.  Each failure mode of generate has an error kind of its own: the    *)
(* kind raised by a failing call is the kind of no other failure mode.     *)
(* The modes: order (a tag or lora before any character, no character),    *)
(* unsupported type, gender mismatch, tag incompatibility.                 *)
(***************************************************************************)
FailureMode(site) ==
    CASE site \in {"tag_before_character", "no_character"} -> "order"
      [] site = "unsupported_type" -> "type"
      [] site = "gender" -> "gender"
      [] site = "incompatible" -> "incompatible"
      [] OTHER -> "other"

ValidationSites ==
    {"tag_before_character", "no_character", "unsupported_type", "gender",
     "incompatible"}

C7_DistinctErrorKinds ==
    (IsGenerate /\ result.status = "raise" /\ result.site \in ValidationSites)
    => \A site \in ValidationSites :
          FailureMode(site) # FailureMode(result.site)
             => ExcOf(site) # result.exc

(***************************************************************************)
(* C8.  Geometric fold.  A call on a valid list succeeds and, in every     *)
(* group, every accumulated token ends with exactly one weight, the        *)
(* product of its n >= 1 contributions raised to the power 1/n.            *)
(***************************************************************************)
\* the groups of a list that passes the grouping loop
GroupsOf(h, els) == Grouping(h, els, FALSE).groups

C8_GeometricFold ==
    (/\ IsGenerate
     /\ PassesGrouping(heap, call.elements, call.enforce_gender)
     /\ ~HasConflict(heap, call.elements))
    => /\ result.status = "ok"
       /\ LET groups == GroupsOf(heap, call.elements)
          IN  /\ Len(result.rends) = Len(groups)
              /\ \A g \in DOMAIN groups :
                    LET rend == GroupRend(heap, groups[g])
                    IN  /\ Len(result.rends[g]) = Len(rend)
                        /\ \A k \in DOMAIN rend :
                              /\ Len(rend[k].value) >= 1
                              /\ result.rends[g][k].value =
                                    << [rad |-> Prod(rend[k].value),
                                        idx |-> Len(rend[k].value)] >>

(***************************************************************************)
(* C9.  load raises the unknown-element error exactly when a part of type  *)
(* 'element' or an entry of a tag's 'incompatibles' names an element the   *)
(* document does not define, whatever the registry held before; when every *)
(* referenced name is defined in the document, load returns normally.      *)
(***************************************************************************)
\* the names the document defines
DefinedNames(doc) ==
    {doc.characters[i].name : i \in DOMAIN doc.characters}
      \cup {doc.tags[i].name : i \in DOMAIN doc.tags}
      \cup {doc.loras[i].name : i \in DOMAIN doc.loras}

\* the names the 'element' parts of a record refer to
PartNames(rec) ==
    {rec.parts[k].value : k \in {j \in DOMAIN rec.parts :
                                     rec.parts[j].type = "element"}}

\* the names the document refers to
ReferencedNames(doc) ==
    UNION {PartNames(doc.characters[i]) : i \in DOMAIN doc.characters}
      \cup UNION {PartNames(doc.tags[i]) : i \in DOMAIN doc.tags}
      \cup UNION {Range(doc.tags[i].incompatibles) : i \in DOMAIN doc.tags}

C9_UnknownReference ==
    call.op = "load" =>
       IF ReferencedNames(file) \subseteq DefinedNames(file)
       THEN result.status = "ok"
       ELSE result.status = "raise" /\ result.site = "unknown_element"

(***************************************************************************)
(* C10.  The filename of a successful call is the underscore-join, in      *)
(* group order, of name_count components, count being the character's      *)
(* usage count right after the increment made when that group was opened.  *)
(***************************************************************************)
\* the characters of the list, one per group, in order
CharsOf(h, els) ==
    SelectSeq(els, LAMBDA e : e >= 1 /\ h[e].kind = "Character")

\* the count of the k-th group's character right after the k-th group opened,
\* h being the heap before the call
CountAtOpening(h, chars, k) ==
    h[chars[k]].images_generated
       + Cardinality({j \in 1..k : chars[j] = chars[k]})

RECURSIVE ExpectedFilename(_, _, _)
ExpectedFilename(h, chars, k) ==
    IF k > Len(chars) THEN <<>>
    ELSE (IF k = 1 THEN <<>> ELSE <<"_">>)
           \o <<h[chars[k]].name, "_">> \o IntStr(CountAtOpening(h, chars, k))
           \o ExpectedFilename(h, chars, k + 1)

C10_FilenameCounts ==
    [][ (call'.op = "generate" /\ call.op = "none" /\ result'.status = "ok")
          => result'.filename
               = ExpectedFilename(heap, CharsOf(heap, call'.elements), 1) ]_vars

(***************************************************************************)
(* C11.  No self-incompatibility: no add_incompatibility call, whatever    *)
(* its receiver and argument, and no load puts a tag's own name into its   *)
(* incompatible_names.  A tag that lists its own name after a step either  *)
(* listed it before the step or was built by a constructor in that step.   *)
(***************************************************************************)
\* the tag at ref lists its own name
SelfIncompatible(h, ref) == h[ref].name \in h[ref].incompatible_names

C11_NoSelfIncompatibility ==
    [][ \A r \in RefsOfKind(heap', "Tag") :
           SelfIncompatible(heap', r)
              => IF r \in Refs(heap)
                 THEN SelfIncompatible(heap, r)
                 ELSE call'.op # "load" ]_vars

(***************************************************************************)
(* C12.  No partial success and no rollback.  A generate call that raises  *)
(* (order, unsupported type, gender, incompatibility, and any other raise) *)
(* returns no prompt and no filename; every character keeps one increment  *)
(* for each group it opened before the point of failure, characters met    *)
(* only after that point keep their count, and no other field of any       *)
(* element changes.                                                        *)
(***************************************************************************)
\* the position at which the grouping loop stops: the first position it
\* rejects, one past the end of the list when it rejects none
FailPoint(h, els, enforce_gender) ==
    LET rejected == {i \in DOMAIN els :
                       \/ StructuralFaultAt(h, els, i)
                       \/ enforce_gender /\ MismatchAt(h, els, i)}
    IN  IF rejected = {} THEN Len(els) + 1
        ELSE CHOOSE i \in rejected : \A k \in rejected : i <= k

\* the groups the element at ref opened before position n
GroupsOpened(els, ref, n) == Cardinality({i \in 1..(n - 1) : els[i] = ref})

C12_NoRollback ==
    [][ (call.op = "none" /\ call'.op = "generate" /\ result'.status = "raise")
          => /\ result'.prompt = <<>>
             /\ result'.filename = <<>>
             /\ Len(heap') = Len(heap)
             /\ \A r \in Refs(heap) :
                   heap'[r] =
                      IF heap[r].kind = "Character"
                      THEN [heap[r] EXCEPT !.images_generated =
                              @ + GroupsOpened(call'.elements, r,
                                     FailPoint(heap, call'.elements,
                                               call'.enforce_gender))]
                      ELSE heap[r] ]_vars

\* a call rejected in the middle of its list: a character opened two groups
\* before the rejected position and another character stands after it
C12_Witness ==
    /\ IsGenerate
    /\ result.status = "raise"
    /\ result.site \in ValidationSites
    /\ LET els == call.elements
           n == FailPoint(heap, els, call.enforce_gender)
       IN  /\ n <= Len(els)
           /\ \E i, j \in 1..(n - 1) :
                 /\ i # j
                 /\ KindAt(heap, els, i) = "Character"
                 /\ els[i] = els[j]
                 /\ heap[els[i]].images_generated = 2
           /\ \E k \in (n + 1)..Len(els) :
                 /\ KindAt(heap, els, k) = "Character"
                 /\ heap[els[k]].images_generated = 0

====
